---- MODULE Spec2Model ----
(***************************************************************************)
(* A model of package gtr (pkg/gtr/gtr.go) of go-junit-report: the Report  *)
(* data model, Report.IsSuccessful, the FromEvents event dispatcher, the   *)
(* JUnit renderer and its helpers formatOutput, trimOutputPrefix and       *)
(* mergeBenchmarks.                                                         *)
(*                                                                         *)
(* Go strings are modelled as sequences of one-character strings, so that  *)
(* prefix trimming, field splitting and joining are computed character by  *)
(* character.  A nil pointer is the empty sequence and a non-nil pointer   *)
(* the one-element sequence holding the value pointed to.  A float64 is a  *)
(* rational [num, den] in lowest terms; the inputs are small integers, on  *)
(* which float64 addition is exact.  A time.Duration is an integer number  *)
(* of nanoseconds.  The ReportBuilder and package junit are not part of    *)
(* gtr.go: their operations follow the design document.                    *)
(***************************************************************************)
EXTENDS Integers, Sequences, FiniteSets, TLC

\* ------------------------------------------------------------------ bounds

MaxPackages == 2
MaxTests == 2
MaxBenchmarks == 3
MaxLines == 2
MaxLevel == 1
MaxDur == 2
MaxSpaces == 9
MaxTail == 2
MaxMetric == 3
MaxEvents == 3

\* ------------------------------------------------------------- Go strings

Empty == <<>>

Space == " "

Tab == <<"\t">>

Newline == <<"\n">>

FourSpaces == <<" ", " ", " ", " ">>

HasPrefix(s, prefix) ==
    /\ Len(s) >= Len(prefix)
    /\ SubSeq(s, 1, Len(prefix)) = prefix

\* strings.TrimPrefix: s without the prefix when it starts with it, else s.
TrimPrefix(s, prefix) ==
    IF HasPrefix(s, prefix) THEN SubSeq(s, Len(prefix) + 1, Len(s)) ELSE s

RECURSIVE StringsJoin(_, _)
\* strings.Join: the elements with sep between each two of them.
StringsJoin(elems, sep) ==
    IF Len(elems) = 0 THEN Empty
    ELSE IF Len(elems) = 1 THEN elems[1]
    ELSE elems[1] \o sep \o StringsJoin(Tail(elems), sep)

RECURSIVE IndexNotSpaceFrom(_, _)
IndexNotSpaceFrom(line, i) ==
    IF i > Len(line) THEN -1
    ELSE IF line[i] # Space THEN i - 1
    ELSE IndexNotSpaceFrom(line, i + 1)

\* strings.IndexFunc(line, r != ' '): the 0-based index of the first
\* character that is not a space, -1 when there is none.
IndexNotSpace(line) == IndexNotSpaceFrom(line, 1)

\* Go's %: the remainder has the sign of the dividend.
GoMod(a, b) == IF a >= 0 THEN a % b ELSE -((-a) % b)

\* Go's integer /: the quotient is truncated toward zero.
GoDiv(a, b) == IF a >= 0 THEN a \div b ELSE -((-a) \div b)

\* propFieldsFunc: the separator characters of a property line.
propFieldsFunc(r) == r = ":" \/ r = Space

RECURSIVE FieldsFrom(_, _, _, _)
FieldsFrom(line, i, cur, fields) ==
    IF i > Len(line)
    THEN IF cur = Empty THEN fields ELSE Append(fields, cur)
    ELSE IF propFieldsFunc(line[i])
         THEN FieldsFrom(line, i + 1, Empty,
                         IF cur = Empty THEN fields ELSE Append(fields, cur))
         ELSE FieldsFrom(line, i + 1, Append(cur, line[i]), fields)

\* strings.FieldsFunc(line, propFieldsFunc): the maximal runs of characters
\* that are not separators, in order.
FieldsFunc(line) == FieldsFrom(line, 1, Empty, <<>>)

\* ------------------------------------------------------------ data model

Unknown == "Unknown"

Pass == "Pass"

Fail == "Fail"

Skip == "Skip"

Results == {Unknown, Pass, Fail, Skip}

\* The zero value of Result, which a Benchmark{Name: ...} literal carries.
ZeroResult == Unknown

\* float64 values as rationals in lowest terms.
RECURSIVE Gcd(_, _)
Gcd(a, b) == IF b = 0 THEN a ELSE Gcd(b, a % b)

Abs(a) == IF a < 0 THEN -a ELSE a

Rat(n, d) ==
    LET g == Gcd(Abs(n), d)
    IN  IF n = 0 THEN [num |-> 0, den |-> 1]
        ELSE [num |-> n \div g, den |-> d \div g]

Float(n) == Rat(n, 1)

FloatAdd(x, y) == Rat(x.num * y.den + y.num * x.den, x.den * y.den)

FloatDiv(x, n) == Rat(x.num, x.den * n)

\* A float64 converted to an int64 (time.Duration(f)): truncated toward zero.
FloatToInt(x) == GoDiv(x.num, x.den)

NoError == [Name |-> Empty, Duration |-> 0, Cause |-> Empty, Output |-> <<>>]

NewTest(name, duration, result, level, output) ==
    [Name |-> name, Duration |-> duration, Result |-> result,
     Level |-> level, Output |-> output]

NewBenchmark(name, result, iterations, ns, mb, bytes, allocs) ==
    [Name |-> name, Result |-> result, Output |-> <<>>,
     Iterations |-> iterations, NsPerOp |-> ns, MBPerSec |-> mb,
     BytesPerOp |-> bytes, AllocsPerOp |-> allocs]

\* Benchmark{Name: name}: every other field has its zero value.
ZeroBenchmark(name) ==
    NewBenchmark(name, ZeroResult, 0, Float(0), Float(0), 0, 0)

EmptyPackage ==
    [Name |-> <<"p">>, Duration |-> 0, Coverage |-> Float(0), Output |-> <<>>,
     Tests |-> <<>>, Benchmarks |-> <<>>,
     BuildError |-> NoError, RunError |-> NoError]

\* ------------------------------------------------- output normalisation

RECURSIVE TrimLoopExclusive(_, _, _)
\* A variant whose loop stops one iteration early (i < level).
TrimLoopExclusive(line, i, level) ==
    IF i < level
    THEN TrimLoopExclusive(TrimPrefix(line, FourSpaces), i + 1, level)
    ELSE line

RECURSIVE TrimLoop(_, _, _)
\* for i := 0; i <= level; i++ { line = strings.TrimPrefix(line, "    ") }
TrimLoop(line, i, level) ==
    IF i <= level
    THEN TrimLoop(TrimPrefix(line, FourSpaces), i + 1, level)
    ELSE line

trimOutputPrefix(line, level) ==
    LET prefixLen == IndexNotSpace(line)
        trimmed == IF GoMod(prefixLen, 4) = 0
                   THEN TrimLoop(line, 0, level)
                   ELSE line
    IN  TrimPrefix(trimmed, Tab)

formatOutput(output, level) ==
    StringsJoin([i \in 1..Len(output) |-> trimOutputPrefix(output[i], level)],
                Newline)

\* ------------------------------------------------ benchmark aggregation

RECURSIVE MergedNames(_, _, _)
\* The first loop of mergeBenchmarks: one Benchmark{Name} per name, appended
\* when the name is first seen.
MergedNames(benchmarks, i, merged) ==
    IF i > Len(benchmarks) THEN merged
    ELSE LET bm == benchmarks[i]
             seen == \E j \in 1..(i - 1) : benchmarks[j].Name = bm.Name
         IN  MergedNames(benchmarks, i + 1,
                         IF seen THEN merged
                         ELSE Append(merged, ZeroBenchmark(bm.Name)))

\* benchmap[name]: the records of that name, in input order.
Benchmap(benchmarks, name) ==
    SelectSeq(benchmarks, LAMBDA b : b.Name = name)

RECURSIVE SumInto(_, _, _)
\* The inner loop: bm accumulates the four metrics of the records of its name.
SumInto(bm, group, k) ==
    IF k > Len(group) THEN bm
    ELSE SumInto([bm EXCEPT !.NsPerOp = FloatAdd(@, group[k].NsPerOp),
                            !.MBPerSec = FloatAdd(@, group[k].MBPerSec),
                            !.BytesPerOp = @ + group[k].BytesPerOp,
                            !.AllocsPerOp = @ + group[k].AllocsPerOp],
                 group, k + 1)

\* A variant that leaves MB/s as the sum it accumulated.
MergeOneSumOnly(benchmarks, m) ==
    LET group == Benchmap(benchmarks, m.Name)
        bm == SumInto(m, group, 1)
        n == Len(group)
    IN  [m EXCEPT !.NsPerOp = FloatDiv(bm.NsPerOp, n),
                  !.MBPerSec = bm.MBPerSec,
                  !.BytesPerOp = GoDiv(bm.BytesPerOp, n),
                  !.AllocsPerOp = GoDiv(bm.AllocsPerOp, n)]

\* One iteration of the second loop: merged[i] gets the four quotients.
MergeOne(benchmarks, m) ==
    LET group == Benchmap(benchmarks, m.Name)
        bm == SumInto(m, group, 1)
        n == Len(group)
    IN  [m EXCEPT !.NsPerOp = FloatDiv(bm.NsPerOp, n),
                  !.MBPerSec = FloatDiv(bm.MBPerSec, n),
                  !.BytesPerOp = GoDiv(bm.BytesPerOp, n),
                  !.AllocsPerOp = GoDiv(bm.AllocsPerOp, n)]

\* A variant that groups nothing: one record out per record in.
mergeBenchmarksUngrouped(benchmarks) ==
    [i \in 1..Len(benchmarks) |->
        MergeOne(<<benchmarks[i]>>, ZeroBenchmark(benchmarks[i].Name))]

mergeBenchmarks(benchmarks) ==
    LET merged == MergedNames(benchmarks, 1, <<>>)
    IN  [i \in 1..Len(merged) |-> MergeOne(benchmarks, merged[i])]

\* ------------------------------------------------------- Report.IsSuccessful

RECURSIVE TestsSuccessful(_, _)
\* The inner loop: FALSE at the first test that neither passed nor was skipped.
TestsSuccessful(tests, i) ==
    IF i > Len(tests) THEN TRUE
    ELSE IF tests[i].Result # Pass /\ tests[i].Result # Skip THEN FALSE
    ELSE TestsSuccessful(tests, i + 1)

RECURSIVE PackagesSuccessful(_, _)
\* The outer loop: FALSE at the first package with an error or a bad test.
PackagesSuccessful(packages, i) ==
    IF i > Len(packages) THEN TRUE
    ELSE IF packages[i].BuildError.Name # Empty \/ packages[i].RunError.Name # Empty
         THEN FALSE
    ELSE IF ~TestsSuccessful(packages[i].Tests, 1) THEN FALSE
    ELSE PackagesSuccessful(packages, i + 1)

\* A variant that takes only a failed test for unsuccessful.
IsSuccessfulFailOnly(r) ==
    \A p \in 1..Len(r.Packages) :
        /\ r.Packages[p].BuildError.Name = Empty
        /\ r.Packages[p].RunError.Name = Empty
        /\ \A t \in 1..Len(r.Packages[p].Tests) :
               r.Packages[p].Tests[t].Result # Fail

IsSuccessful(r) == PackagesSuccessful(r.Packages, 1)

\* ------------------------------------------------------- package junit

\* junit.FormatDuration: the duration in seconds with three decimals.
FormatDuration(d) ==
    LET ms == (Abs(d) + 500000) \div 1000000
    IN  [neg |-> d < 0 /\ ms > 0, sec |-> ms \div 1000, frac |-> ms % 1000,
         digits |-> 3]

\* junit.FormatBenchmarkTime: the duration in seconds with nine decimals.
FormatBenchmarkTime(d) ==
    [neg |-> d < 0, sec |-> Abs(d) \div 1000000000,
     frac |-> Abs(d) % 1000000000, digits |-> 9]

\* fmt.Sprintf("%.2f", x): x with two decimals.
FormatPct(x) ==
    LET h == (2 * Abs(x.num) * 100 + x.den) \div (2 * x.den)
    IN  [neg |-> x.num < 0 /\ h > 0, whole |-> h \div 100, frac |-> h % 100]

NewTestcase(classname, name, time) ==
    [Classname |-> classname, Name |-> name, Time |-> time,
     Skipped |-> <<>>, Error |-> <<>>, Failure |-> <<>>]

\* &junit.Result{Message: message, Data: data}
ResultPtr(message, data) == <<[Message |-> message, Data |-> data]>>

\* Testsuite.AddProperty
AddProperty(suite, name, value) ==
    [suite EXCEPT !.Properties = Append(@, [Name |-> name, Value |-> value])]

\* Testsuite.AddTestcase
AddTestcase(suite, tc) ==
    [suite EXCEPT !.Testcases = Append(@, tc)]

\* Testsuites.AddSuite
AddSuite(suites, suite) == Append(suites, suite)

\* ----------------------------------------------------------------- JUnit

propPrefixes == {<<"g", "o", "o", "s">>, <<"g", "o", "a", "r", "c", "h">>,
                 <<"p", "k", "g">>}

MsgFailed == <<"F", "a", "i", "l", "e", "d">>

MsgNoResult == <<"N", "o", " ", "t", "e", "s", "t", " ", "r", "e", "s", "u",
                 "l", "t", " ", "f", "o", "u", "n", "d">>

MsgBuildError == <<"B", "u", "i", "l", "d", " ", "e", "r", "r", "o", "r">>

MsgRunError == <<"R", "u", "n", " ", "e", "r", "r", "o", "r">>

NameFailure == <<"F", "a", "i", "l", "u", "r", "e">>

PropCoverage == <<"c", "o", "v", "e", "r", "a", "g", "e", ".", "s", "t", "a",
                  "t", "e", "m", "e", "n", "t", "s", ".", "p", "c", "t">>

\* suite.SystemOut: set when the package has output lines.
WithSystemOut(suite, pkg) ==
    IF Len(pkg.Output) > 0
    THEN [suite EXCEPT !.SystemOut = <<[Data |-> formatOutput(pkg.Output, 0)]>>]
    ELSE suite

WithCoverage(suite, pkg) ==
    IF pkg.Coverage.num > 0
    THEN AddProperty(suite, PropCoverage, FormatPct(pkg.Coverage))
    ELSE suite

\* A variant that takes the first two fields of a longer line too.
WithLinePropertyAtLeastTwo(suite, line) ==
    LET fields == FieldsFunc(line)
    IN  IF Len(fields) >= 2 /\ fields[1] \in propPrefixes
        THEN AddProperty(suite, fields[1], fields[2])
        ELSE suite

\* The loop body over pkg.Output: a property for a line of two fields whose
\* first is one of propPrefixes.
WithLineProperty(suite, line) ==
    LET fields == FieldsFunc(line)
    IN  IF Len(fields) = 2 /\ fields[1] \in propPrefixes
        THEN AddProperty(suite, fields[1], fields[2])
        ELSE suite

RECURSIVE WithProperties(_, _, _)
WithProperties(suite, output, i) ==
    IF i > Len(output) THEN suite
    ELSE WithProperties(WithLineProperty(suite, output[i]), output, i + 1)

\* A variant without the branch for a test without result.
TestTestcaseNoUnknown(pkg, test) ==
    LET tc == NewTestcase(pkg.Name, test.Name, FormatDuration(test.Duration))
    IN  IF test.Result = Fail
        THEN [tc EXCEPT !.Failure =
                 ResultPtr(MsgFailed, formatOutput(test.Output, test.Level))]
        ELSE IF test.Result = Skip
        THEN [tc EXCEPT !.Skipped =
                 ResultPtr(formatOutput(test.Output, test.Level), Empty)]
        ELSE tc

\* The test-case of one Test.
TestTestcase(pkg, test) ==
    LET tc == NewTestcase(pkg.Name, test.Name, FormatDuration(test.Duration))
    IN  IF test.Result = Fail
        THEN [tc EXCEPT !.Failure =
                 ResultPtr(MsgFailed, formatOutput(test.Output, test.Level))]
        ELSE IF test.Result = Skip
        THEN [tc EXCEPT !.Skipped =
                 ResultPtr(formatOutput(test.Output, test.Level), Empty)]
        ELSE IF test.Result = Unknown
        THEN [tc EXCEPT !.Error =
                 ResultPtr(MsgNoResult, formatOutput(test.Output, test.Level))]
        ELSE tc

RECURSIVE WithTests(_, _, _)
WithTests(suite, pkg, i) ==
    IF i > Len(pkg.Tests) THEN suite
    ELSE WithTests(AddTestcase(suite, TestTestcase(pkg, pkg.Tests[i])), pkg, i + 1)

RECURSIVE TestsDuration(_, _)
\* duration += test.Duration, over the tests of the package.
TestsDuration(tests, i) ==
    IF i > Len(tests) THEN 0
    ELSE tests[i].Duration + TestsDuration(tests, i + 1)

\* The test-case of one merged Benchmark.
BenchmarkTestcase(pkg, bm) ==
    LET tc == NewTestcase(pkg.Name, bm.Name,
                          FormatBenchmarkTime(FloatToInt(bm.NsPerOp)))
    IN  IF bm.Result = Fail
        THEN [tc EXCEPT !.Failure = ResultPtr(MsgFailed, Empty)]
        ELSE tc

RECURSIVE WithMerged(_, _, _, _)
WithMerged(suite, pkg, merged, i) ==
    IF i > Len(merged) THEN suite
    ELSE WithMerged(AddTestcase(suite, BenchmarkTestcase(pkg, merged[i])),
                    pkg, merged, i + 1)

WithBenchmarks(suite, pkg) ==
    WithMerged(suite, pkg, mergeBenchmarks(pkg.Benchmarks), 1)

\* A variant that normalises the build error's output like a test's.
WithBuildErrorNormalised(suite, pkg) ==
    IF pkg.BuildError.Name # Empty
    THEN AddTestcase(suite,
             [NewTestcase(pkg.BuildError.Name, pkg.BuildError.Cause,
                          FormatDuration(0))
              EXCEPT !.Error = ResultPtr(MsgBuildError,
                                   formatOutput(pkg.BuildError.Output, 0))])
    ELSE suite

WithBuildError(suite, pkg) ==
    IF pkg.BuildError.Name # Empty
    THEN AddTestcase(suite,
             [NewTestcase(pkg.BuildError.Name, pkg.BuildError.Cause,
                          FormatDuration(0))
              EXCEPT !.Error = ResultPtr(MsgBuildError,
                                   StringsJoin(pkg.BuildError.Output, Newline))])
    ELSE suite

WithRunError(suite, pkg) ==
    IF pkg.RunError.Name # Empty
    THEN AddTestcase(suite,
             [NewTestcase(pkg.RunError.Name, NameFailure, FormatDuration(0))
              EXCEPT !.Error = ResultPtr(MsgRunError,
                                   StringsJoin(pkg.RunError.Output, Newline))])
    ELSE suite

\* A variant that always takes the tests' total.
SuiteTimeTestsOnly(pkg) == FormatDuration(TestsDuration(pkg.Tests, 1))

\* suite.Time: the package's duration, or the tests' total when it is zero.
SuiteTime(pkg) ==
    IF pkg.Duration = 0
    THEN FormatDuration(TestsDuration(pkg.Tests, 1))
    ELSE FormatDuration(pkg.Duration)

\* One iteration of JUnit's loop over report.Packages.
JUnitSuite(pkg, hostname, timestamp) ==
    LET s0 == [Name |-> pkg.Name, Timestamp |-> timestamp,
               Hostname |-> hostname, SystemOut |-> <<>>,
               Properties |-> <<>>, Testcases |-> <<>>, Time |-> <<>>]
        s1 == WithSystemOut(s0, pkg)
        s2 == WithCoverage(s1, pkg)
        s3 == WithProperties(s2, pkg.Output, 1)
        s4 == WithTests(s3, pkg, 1)
        s5 == WithBenchmarks(s4, pkg)
        s6 == WithBuildError(s5, pkg)
        s7 == WithRunError(s6, pkg)
    IN  [s7 EXCEPT !.Time = SuiteTime(pkg)]

RECURSIVE JUnitFrom(_, _, _, _, _)
JUnitFrom(packages, hostname, timestamp, i, suites) ==
    IF i > Len(packages) THEN suites
    ELSE JUnitFrom(packages, hostname, timestamp, i + 1,
                   AddSuite(suites, JUnitSuite(packages[i], hostname, timestamp)))

\* now.Format(time.RFC3339)
FormatRFC3339(now) == [rfc3339 |-> now]

JUnit(r, hostname, now) ==
    JUnitFrom(r.Packages, hostname, FormatRFC3339(now), 1, <<>>)

\* ----------------------------------------------------------------- state

VARIABLES
    pc,          \* where the caller is
    report,      \* the Report handed to IsSuccessful and JUnit
    suites,      \* what JUnit returned
    successful,  \* what IsSuccessful returned
    line,        \* trimOutputPrefix's line
    level,       \* trimOutputPrefix's level
    trimmed,     \* what trimOutputPrefix returned
    benchmarks,  \* mergeBenchmarks' argument
    merged,      \* what mergeBenchmarks returned
    events,      \* FromEvents' events
    idx,         \* the position of FromEvents' loop in events
    builder,     \* FromEvents' report builder
    calls,       \* the builder operations FromEvents has invoked, in order
    built        \* what FromEvents returned

vars == <<pc, report, suites, successful, line, level, trimmed,
          benchmarks, merged, events, idx, builder, calls, built>>

reportVars == <<report, suites, successful>>

trimVars == <<line, level, trimmed>>

mergeVars == <<benchmarks, merged>>

eventVars == <<events, idx, builder, calls, built>>

None == "none"

\* ---------------------------------------------------------------- inputs

SeqsUpTo(S, n) == UNION {[1..k -> S] : k \in 0..n}

Spaces(n) == [i \in 1..n |-> Space]

Millis(k) == k * 1000000

Durations == {Millis(k) : k \in 0..MaxDur}

TheHostname == <<"h">>

TheNow == "now"

TestLines ==
    {<<"x">>, Spaces(4) \o <<"x">>, Spaces(8) \o <<"\t", "x">>,
     Tab \o <<"x">>, Spaces(3) \o <<"x">>}

PropLines ==
    {<<"g", "o", "o", "s", ":", " ", "x">>,
     <<"g", "o", "o", "s", ":", " ", "y">>,
     <<"g", "o", "o", "s", " ", "x">>,
     <<"g", "o", "o", "s", ":", "x">>,
     <<" ", "g", "o", "o", "s", ":", ":", " ", " ", "x", ":">>,
     <<"g", "o", "o", "s", ":", " ", "x", " ", "y">>,
     <<"g", "o", "o", "s", ":">>,
     <<"g", "o", "a", "r", "c", "h", ":", " ", "x">>,
     <<"p", "k", "g", ":", " ", "x">>,
     <<"f", ":", " ", "x">>,
     <<"x", ":", " ", "p", "k", "g">>,
     <<"x">>}

AnError(name, cause, output) ==
    [Name |-> name, Duration |-> Millis(7), Cause |-> cause, Output |-> output]

ABenchmark(name, result, ns) ==
    NewBenchmark(name, result, 10, Float(ns), Float(ns + 1), ns + 2, ns + 3)

PlainTest(result) == NewTest(<<"T">>, 0, result, 0, <<>>)

\* Reports of several packages, each with or without errors and tests.
SuccessPackages ==
    {[EmptyPackage EXCEPT !.Name = n, !.BuildError = b, !.RunError = r, !.Tests = t] :
        n \in {<<"p">>},
        b \in {NoError, AnError(<<"b">>, <<"c">>, <<>>)},
        r \in {NoError, AnError(<<"r">>, Empty, <<>>)},
        t \in {<<>>, <<PlainTest(Pass)>>, <<PlainTest(Fail)>>} }

ManyPackageReports == {[Packages |-> ps] : ps \in SeqsUpTo(SuccessPackages, MaxPackages)}

\* One package: errors, tests of every result, benchmarks of any result.
ResultReports ==
    {[Packages |-> <<[EmptyPackage EXCEPT !.BuildError = b, !.RunError = r,
                                          !.Tests = t, !.Benchmarks = bm]>>] :
        b \in {NoError, AnError(<<"b">>, <<"c">>, <<>>)},
        r \in {NoError, AnError(<<"r">>, Empty, <<>>)},
        t \in SeqsUpTo({PlainTest(res) : res \in Results}, MaxTests),
        bm \in {<<>>, <<ABenchmark(<<"a">>, Fail, 100)>>,
                <<ABenchmark(<<"a">>, Unknown, 100)>>} }

\* One package with one test: every result, level and output.
OutputReports ==
    {[Packages |-> <<[EmptyPackage EXCEPT
                         !.Tests = <<NewTest(<<"T">>, 0, res, lv, out)>>]>>] :
        res \in Results, lv \in 0..MaxLevel,
        out \in SeqsUpTo(TestLines, MaxLines) }

\* One package with several named tests.
NamedTests ==
    {NewTest(n, 0, res, 0, out) :
        n \in {<<"A">>, <<"B">>}, res \in Results,
        out \in {<<>>, <<Spaces(4) \o <<"x">>>>} }

TestReports ==
    {[Packages |-> <<[EmptyPackage EXCEPT !.Tests = t]>>] :
        t \in SeqsUpTo(NamedTests, MaxTests) }

\* One package: its own duration, its tests' durations, and a benchmark and
\* errors that have durations too.
TimeReports ==
    {[Packages |-> <<[EmptyPackage EXCEPT !.Duration = d, !.Tests = t,
                                          !.Benchmarks = bm, !.BuildError = e,
                                          !.RunError = e]>>] :
        d \in Durations,
        t \in SeqsUpTo({NewTest(<<"T">>, td, Pass, 0, <<>>) : td \in Durations},
                       MaxTests),
        bm \in {<<>>, <<ABenchmark(<<"a">>, Pass, Millis(5))>>},
        e \in {NoError, AnError(<<"e">>, <<"c">>, <<>>)} }

\* One package: benchmarks sharing names, alone or after a test and before
\* the error test-cases.
BenchmarkInputs ==
    {ABenchmark(n, res, ns) :
        n \in {<<"a">>, <<"b">>}, res \in {Pass, Fail}, ns \in {100, 300} }

BenchmarkReports ==
    {[Packages |-> <<[EmptyPackage EXCEPT !.Benchmarks = bms, !.Tests = ctx[1],
                                          !.BuildError = ctx[2],
                                          !.RunError = ctx[2]]>>] :
        bms \in SeqsUpTo(BenchmarkInputs, MaxBenchmarks),
        ctx \in {<<<<>>, NoError>>,
                 <<<<PlainTest(Fail)>>, AnError(<<"e">>, <<"c">>, <<>>)>>} }

\* One package: a build error of any name, cause and output, with or
\* without a run error and a test without result.
ErrorReports ==
    {[Packages |-> <<[EmptyPackage EXCEPT
                         !.BuildError = [Name |-> n, Duration |-> 0,
                                         Cause |-> c, Output |-> out],
                         !.RunError = r, !.Tests = t]>>] :
        n \in {Empty, <<"b">>}, c \in {Empty, <<"c">>},
        out \in SeqsUpTo(TestLines, MaxLines),
        r \in {NoError, AnError(<<"r">>, Empty, <<Spaces(4) \o <<"x">>>>)},
        t \in {<<>>, <<PlainTest(Unknown)>>} }

\* One package: output lines that are or are not property lines.
PropertyReports ==
    {[Packages |-> <<[EmptyPackage EXCEPT !.Output = out, !.Coverage = cov]>>] :
        out \in SeqsUpTo(PropLines, MaxLines),
        cov \in {Float(0), Rat(171, 2)} }

ReportInputs ==
    ManyPackageReports \cup ResultReports \cup OutputReports \cup TestReports
    \cup TimeReports \cup BenchmarkReports \cup ErrorReports \cup PropertyReports

\* ------------------------------------------------- rendering a report

IdleReport == report = None /\ suites = None /\ successful = None

IdleTrim == line = None /\ level = None /\ trimmed = None

IdleMerge == benchmarks = None /\ merged = None

IdleEvents ==
    events = None /\ idx = None /\ builder = None /\ calls = None /\ built = None

Init ==
    /\ pc = "start"
    /\ report \in ReportInputs
    /\ suites = None
    /\ successful = None
    /\ IdleTrim
    /\ IdleMerge
    /\ IdleEvents

\* suites := JUnit(report, hostname, now)
CallJUnit ==
    /\ pc = "start"
    /\ suites' = JUnit(report, TheHostname, TheNow)
    /\ pc' = "rendered"
    /\ UNCHANGED <<report, successful, trimVars, mergeVars, eventVars>>

\* successful := report.IsSuccessful()
CallIsSuccessful ==
    /\ pc = "rendered"
    /\ successful' = IsSuccessful(report)
    /\ pc' = "done"
    /\ UNCHANGED <<report, suites, trimVars, mergeVars, eventVars>>

Next == CallJUnit \/ CallIsSuccessful

Spec == Init /\ [][Next]_vars

\* ------------------------------------------------ properties of a report

Rendered == pc \in {"rendered", "done"}

PackageIds == 1..Len(report.Packages)

HasBuildError(pkg) == pkg.BuildError.Name # Empty

HasRunError(pkg) == pkg.RunError.Name # Empty

BenchmarkNames(pkg) == {pkg.Benchmarks[i].Name : i \in 1..Len(pkg.Benchmarks)}

\* The first position of a name in a package's Benchmarks.
FirstSeen(pkg, name) ==
    CHOOSE i \in 1..Len(pkg.Benchmarks) :
        /\ pkg.Benchmarks[i].Name = name
        /\ \A j \in 1..(i - 1) : pkg.Benchmarks[j].Name # name

\* The test-cases of a suite that follow those of the package's tests and
\* precede those of its errors.
BenchmarkCases(pkg, suite) ==
    SubSeq(suite.Testcases, Len(pkg.Tests) + 1,
           Len(suite.Testcases) - (IF HasBuildError(pkg) THEN 1 ELSE 0)
                                - (IF HasRunError(pkg) THEN 1 ELSE 0))

\* C1: IsSuccessful returns false exactly when some package has a build
\* error, a run error, or a test whose result is neither Pass nor Skip;
\* the benchmarks of the report play no part.
C1_IsSuccessful ==
    pc = "done" =>
        (successful = FALSE <=>
            \E p \in PackageIds :
                LET pkg == report.Packages[p]
                IN  \/ HasBuildError(pkg)
                    \/ HasRunError(pkg)
                    \/ \E t \in 1..Len(pkg.Tests) :
                           pkg.Tests[t].Result \notin {Pass, Skip})

\* IsSuccessful returned false for a report whose first package is clean and
\* whose second package alone holds a test without result.
C1_Witness ==
    /\ pc = "done"
    /\ successful = FALSE
    /\ Len(report.Packages) = 2
    /\ ~HasBuildError(report.Packages[1]) /\ ~HasRunError(report.Packages[1])
    /\ \A t \in 1..Len(report.Packages[1].Tests) :
           report.Packages[1].Tests[t].Result = Pass
    /\ HasRunError(report.Packages[2])

\* IsSuccessful returned true for a report that holds a failed benchmark.
C1_WitnessBenchmark ==
    /\ pc = "done"
    /\ successful = TRUE
    /\ \E p \in PackageIds :
           \E b \in 1..Len(report.Packages[p].Benchmarks) :
               report.Packages[p].Benchmarks[b].Result = Fail

\* The record a test-case carries for a test of the given result.
ExpectedRecords(test) ==
    LET out == formatOutput(test.Output, test.Level)
    IN  [Failure |-> IF test.Result = Fail
                     THEN <<[Message |-> MsgFailed, Data |-> out]>> ELSE <<>>,
         Skipped |-> IF test.Result = Skip
                     THEN <<[Message |-> out, Data |-> Empty]>> ELSE <<>>,
         Error |-> IF test.Result = Unknown
                   THEN <<[Message |-> MsgNoResult, Data |-> out]>> ELSE <<>>]

\* C2: the t-th test-case of a suite is that of the package's t-th test: its
\* classname is the package name, its name the test name, and it carries the
\* one record its result chooses (Fail: failure, Skip: skipped, Unknown:
\* error) or none (Pass); a suite has no test-case beyond those of its
\* tests, its distinct benchmark names and its errors.
C2_TestCases ==
    Rendered =>
        \A p \in PackageIds :
            LET pkg == report.Packages[p]
                suite == suites[p]
            IN  /\ Len(suite.Testcases) =
                       Len(pkg.Tests) + Cardinality(BenchmarkNames(pkg))
                       + (IF HasBuildError(pkg) THEN 1 ELSE 0)
                       + (IF HasRunError(pkg) THEN 1 ELSE 0)
                /\ \A t \in 1..Len(pkg.Tests) :
                       LET tc == suite.Testcases[t]
                           want == ExpectedRecords(pkg.Tests[t])
                       IN  /\ tc.Classname = pkg.Name
                           /\ tc.Name = pkg.Tests[t].Name
                           /\ tc.Failure = want.Failure
                           /\ tc.Skipped = want.Skipped
                           /\ tc.Error = want.Error
                           /\ Len(tc.Failure) + Len(tc.Skipped) + Len(tc.Error) <= 1

\* A rendered package with a skipped test at level 1 whose output was
\* normalised into the skipped record's message.
C2_Witness ==
    /\ Rendered
    /\ \E p \in PackageIds :
           \E t \in 1..Len(report.Packages[p].Tests) :
               LET test == report.Packages[p].Tests[t]
                   tc == suites[p].Testcases[t]
               IN  /\ test.Result = Skip
                   /\ test.Level = 1
                   /\ Len(test.Output) = 2
                   /\ tc.Skipped # <<>>
                   /\ tc.Skipped[1].Message # StringsJoin(test.Output, Newline)

RECURSIVE SumOfDurations(_)
SumOfDurations(tests) ==
    IF tests = <<>> THEN 0
    ELSE SumOfDurations(SubSeq(tests, 1, Len(tests) - 1))
         + tests[Len(tests)].Duration

\* C3: a suite's time is the sum of the package's test durations when the
\* package's own duration is zero and the package's own duration otherwise;
\* benchmarks and errors add nothing to it.
C3_SuiteTime ==
    Rendered =>
        \A p \in PackageIds :
            LET pkg == report.Packages[p]
            IN  suites[p].Time =
                    FormatDuration(IF pkg.Duration = 0
                                   THEN SumOfDurations(pkg.Tests)
                                   ELSE pkg.Duration)

\* A rendered package without a duration of its own, with two tests of
\* different non-zero durations, a benchmark and both errors.
C3_Witness ==
    /\ Rendered
    /\ \E p \in PackageIds :
           LET pkg == report.Packages[p]
           IN  /\ pkg.Duration = 0
               /\ Len(pkg.Tests) = 2
               /\ pkg.Tests[1].Duration = Millis(1)
               /\ pkg.Tests[2].Duration = Millis(2)
               /\ Len(pkg.Benchmarks) = 1
               /\ HasBuildError(pkg) /\ HasRunError(pkg)
               /\ suites[p].Time = FormatDuration(Millis(3))

\* C5: a benchmark whose Result is Fail has a test-case of its name that
\* carries a failure record with the fixed message and no data.
C5_FailedBenchmark ==
    Rendered =>
        \A p \in PackageIds :
            LET pkg == report.Packages[p]
                cases == BenchmarkCases(pkg, suites[p])
            IN  \A b \in 1..Len(pkg.Benchmarks) :
                    pkg.Benchmarks[b].Result = Fail =>
                        \E c \in 1..Len(cases) :
                            /\ cases[c].Name = pkg.Benchmarks[b].Name
                            /\ cases[c].Failure =
                                   <<[Message |-> MsgFailed, Data |-> Empty]>>

\* The lines of an error's output, each followed by a line break but the last.
RECURSIVE RawLines(_)
RawLines(output) ==
    IF output = <<>> THEN Empty
    ELSE IF Len(output) = 1 THEN output[1]
    ELSE RawLines(SubSeq(output, 1, Len(output) - 1)) \o <<"\n">>
         \o output[Len(output)]

BuildErrorCases(suite) ==
    {c \in 1..Len(suite.Testcases) :
        /\ suite.Testcases[c].Error # <<>>
        /\ suite.Testcases[c].Error[1].Message = MsgBuildError}

\* C7: a suite holds one build-error test-case when the package's BuildError
\* has a name and none when it has not; its classname is the BuildError's
\* name, its name the cause, and its error record's data the output lines
\* joined by line breaks, unnormalised.
C7_BuildError ==
    Rendered =>
        \A p \in PackageIds :
            LET pkg == report.Packages[p]
                suite == suites[p]
                cases == BuildErrorCases(suite)
            IN  /\ Cardinality(cases) = (IF HasBuildError(pkg) THEN 1 ELSE 0)
                /\ \A c \in cases :
                       LET tc == suite.Testcases[c]
                       IN  /\ tc.Classname = pkg.BuildError.Name
                           /\ tc.Name = pkg.BuildError.Cause
                           /\ tc.Error[1].Data = RawLines(pkg.BuildError.Output)
                           /\ tc.Failure = <<>> /\ tc.Skipped = <<>>

\* A rendered package with a build error of two indented output lines, which
\* normalisation would have changed.
C7_Witness ==
    /\ Rendered
    /\ \E p \in PackageIds :
           LET pkg == report.Packages[p]
           IN  /\ HasBuildError(pkg)
               /\ pkg.BuildError.Cause # Empty
               /\ Len(pkg.BuildError.Output) = 2
               /\ formatOutput(pkg.BuildError.Output, 0)
                      # RawLines(pkg.BuildError.Output)
               /\ Cardinality(BuildErrorCases(suites[p])) = 1

\* C9: the benchmark test-cases of a suite are one per distinct benchmark
\* name, in the order in which the names first occur in the package.
C9_BenchmarkCases ==
    Rendered =>
        \A p \in PackageIds :
            LET pkg == report.Packages[p]
                cases == BenchmarkCases(pkg, suites[p])
            IN  /\ Len(cases) = Cardinality(BenchmarkNames(pkg))
                /\ {cases[c].Name : c \in 1..Len(cases)} = BenchmarkNames(pkg)
                /\ \A c \in 1..Len(cases) : cases[c].Classname = pkg.Name
                /\ \A c, d \in 1..Len(cases) :
                       c < d => FirstSeen(pkg, cases[c].Name)
                                    < FirstSeen(pkg, cases[d].Name)

\* A rendered package whose three benchmark records have two names, the
\* first name occurring again after the second, beside a test and errors.
C9_Witness ==
    /\ Rendered
    /\ \E p \in PackageIds :
           LET pkg == report.Packages[p]
               cases == BenchmarkCases(pkg, suites[p])
           IN  /\ Len(pkg.Benchmarks) = 3
               /\ pkg.Benchmarks[1].Name = pkg.Benchmarks[3].Name
               /\ pkg.Benchmarks[1].Name # pkg.Benchmarks[2].Name
               /\ Len(pkg.Tests) = 1 /\ HasBuildError(pkg)
               /\ Len(cases) = 2
               /\ cases[1].Name = pkg.Benchmarks[1].Name

IsSeparator(c) == c = ":" \/ c = " "

\* The positions of a line where a token may start, and where one may end.
TokenStarts(ln) ==
    {i \in 1..Len(ln) : ~IsSeparator(ln[i]) /\ (i > 1 => IsSeparator(ln[i - 1]))}

TokenEnds(ln) ==
    {i \in 1..Len(ln) :
        ~IsSeparator(ln[i]) /\ (i < Len(ln) => IsSeparator(ln[i + 1]))}

TokenPairs(ln) ==
    TokenStarts(ln) \X TokenEnds(ln) \X TokenStarts(ln) \X TokenEnds(ln)

\* The <<key, value>> of a line written key, colon, value: a key of the
\* allow-list, the colon right after it, and one value token, with nothing
\* but spaces before the key, between colon and value, and after the value.
KeyColonValue(ln) ==
    {<<SubSeq(ln, w[1], w[2]), SubSeq(ln, w[3], w[4])>> : w \in
        {w \in TokenPairs(ln) :
            /\ w[1] <= w[2] /\ w[2] + 1 < w[3] /\ w[3] <= w[4]
            /\ SubSeq(ln, w[1], w[2]) \in propPrefixes
            /\ ln[w[2] + 1] = ":"
            /\ \A i \in w[3]..w[4] : ~IsSeparator(ln[i])
            /\ \A i \in 1..Len(ln) :
                   (i < w[1] \/ i > w[4] \/ (i > w[2] + 1 /\ i < w[3]))
                       => ln[i] = " "}}

\* The <<key, value>> of a line that is two tokens apart from runs of colons
\* and spaces before, between and after them.
TwoTokens(ln) ==
    {<<SubSeq(ln, w[1], w[2]), SubSeq(ln, w[3], w[4])>> : w \in
        {w \in TokenPairs(ln) :
            /\ w[1] <= w[2] /\ w[2] + 1 < w[3] /\ w[3] <= w[4]
            /\ \A i \in 1..Len(ln) :
                   IsSeparator(ln[i]) <=>
                       ~(i \in w[1]..w[2] \/ i \in w[3]..w[4])}}

RECURSIVE KeyColonValueProperties(_)
KeyColonValueProperties(output) ==
    IF output = <<>> THEN <<>>
    ELSE LET found == KeyColonValue(Head(output))
             kv == CHOOSE x \in found : TRUE
         IN  (IF found = {} THEN <<>>
              ELSE <<[Name |-> kv[1], Value |-> kv[2]]>>)
             \o KeyColonValueProperties(Tail(output))

RECURSIVE TwoTokenProperties(_)
TwoTokenProperties(output) ==
    IF output = <<>> THEN <<>>
    ELSE LET found == {x \in TwoTokens(Head(output)) : x[1] \in propPrefixes}
             kv == CHOOSE x \in found : TRUE
         IN  (IF found = {} THEN <<>>
              ELSE <<[Name |-> kv[1], Value |-> kv[2]]>>)
             \o TwoTokenProperties(Tail(output))

\* The properties of a suite other than the coverage property.
LineProperties(suite) ==
    SelectSeq(suite.Properties, LAMBDA q : q.Name # PropCoverage)

\* C10 as stated: the properties of a suite are those of the package's
\* output lines of the shape key, colon, value with an allowed key, in line
\* order, duplicates kept; no other line gives a property.
C10_KeyColonValueLines ==
    Rendered =>
        \A p \in PackageIds :
            LineProperties(suites[p])
                = KeyColonValueProperties(report.Packages[p].Output)

\* C10 as amended: the properties of a suite are those of the package's
\* output lines that split, at every run of colons and spaces, into exactly
\* two tokens of which the first is an allowed key, in line order,
\* duplicates kept; no other line gives a property.
C10_TwoTokenLines ==
    Rendered =>
        \A p \in PackageIds :
            LineProperties(suites[p])
                = TwoTokenProperties(report.Packages[p].Output)

\* A rendered package with two output lines of the same key, one of them
\* without a colon, that gave two properties.
C10_Witness ==
    /\ Rendered
    /\ \E p \in PackageIds :
           LET out == report.Packages[p].Output
               props == LineProperties(suites[p])
           IN  /\ Len(out) = 2
               /\ KeyColonValue(out[1]) # {}
               /\ KeyColonValue(out[2]) = {}
               /\ Len(props) = 2
               /\ props[1].Name = props[2].Name

\* ------------------------------------------- trimming one output line

LineInputs ==
    {Spaces(n) \o tl : n \in 0..MaxSpaces,
                       tl \in SeqsUpTo({" ", "\t", "x"}, MaxTail)}

InitTrim ==
    /\ pc = "trim"
    /\ line \in LineInputs
    /\ level \in 0..MaxLevel
    /\ trimmed = None
    /\ IdleReport
    /\ IdleMerge
    /\ IdleEvents

\* trimmed := trimOutputPrefix(line, level)
CallTrimOutputPrefix ==
    /\ pc = "trim"
    /\ trimmed' = trimOutputPrefix(line, level)
    /\ pc' = "trimmed"
    /\ UNCHANGED <<line, level, reportVars, mergeVars, eventVars>>

NextTrim == CallTrimOutputPrefix

SpecTrim == InitTrim /\ [][NextTrim]_vars

\* The length of the leading run of spaces of a line.
LeadingSpaces(ln) ==
    CHOOSE n \in 0..Len(ln) :
        /\ \A i \in 1..n : ln[i] = " "
        /\ n < Len(ln) => ln[n + 1] # " "

Drop(ln, n) == SubSeq(ln, n + 1, Len(ln))

WithoutLeadingTab(ln) == IF ln # <<>> /\ ln[1] = "\t" THEN Drop(ln, 1) ELSE ln

Min(a, b) == IF a <= b THEN a ELSE b

\* C6 as stated: from a line whose leading run of spaces is a multiple of 4
\* long, trimOutputPrefix removes level + 1 groups of 4 leading spaces and
\* then one leading tab if there is one.
C6_RemovesLevelPlusOneGroups ==
    (pc = "trimmed" /\ LeadingSpaces(line) % 4 = 0) =>
        /\ LeadingSpaces(line) >= 4 * (level + 1)
        /\ trimmed = WithoutLeadingTab(Drop(line, 4 * (level + 1)))

\* C6 as amended: from a line with a character other than a space, whose
\* leading run of spaces is 4 * g long, trimOutputPrefix removes
\* min(level + 1, g) groups of 4 leading spaces and then one leading tab if
\* there is one; a line of spaces only, or an empty one, is returned as is.
C6_RemovesGroupsPresent ==
    (pc = "trimmed" /\ LeadingSpaces(line) % 4 = 0) =>
        IF LeadingSpaces(line) = Len(line)
        THEN trimmed = line
        ELSE trimmed =
                 WithoutLeadingTab(
                     Drop(line, 4 * Min(level + 1, LeadingSpaces(line) \div 4)))

\* A line of 8 leading spaces, a tab and a character was trimmed at level 1
\* and lost the 8 spaces and the tab.
C6_Witness ==
    /\ pc = "trimmed"
    /\ level = 1
    /\ line = Spaces(8) \o <<"\t", "x">>
    /\ trimmed = <<"x">>

\* ------------------------------------------------ merging benchmarks

MergeInputs ==
    {NewBenchmark(n, Pass, 10 + x, Float(100 * x), Float(x + 1), x, -x) :
        n \in {<<"a">>, <<"b">>}, x \in 0..MaxMetric}

InitMerge ==
    /\ pc = "merge"
    /\ benchmarks \in SeqsUpTo(MergeInputs, MaxBenchmarks)
    /\ merged = None
    /\ IdleReport
    /\ IdleTrim
    /\ IdleEvents

\* merged := mergeBenchmarks(benchmarks)
CallMergeBenchmarks ==
    /\ pc = "merge"
    /\ merged' = mergeBenchmarks(benchmarks)
    /\ pc' = "merged"
    /\ UNCHANGED <<benchmarks, reportVars, trimVars, eventVars>>

NextMerge == CallMergeBenchmarks

SpecMerge == InitMerge /\ [][NextMerge]_vars

\* The positions of the input records of a name.
Sharing(name) == {i \in 1..Len(benchmarks) : benchmarks[i].Name = name}

RECURSIVE RatSum(_, _)
\* The sum, as a rational, of the values x[i] / y[i] for i in I.
RatSum(I, v) ==
    IF I = {} THEN [num |-> 0, den |-> 1]
    ELSE LET i == CHOOSE j \in I : TRUE
             rest == RatSum(I \ {i}, v)
         IN  Rat(v[i].num * rest.den + rest.num * v[i].den, v[i].den * rest.den)

\* The arithmetic mean of the values v[i], i in I.
Mean(I, v) ==
    LET sum == RatSum(I, v)
    IN  Rat(sum.num, sum.den * Cardinality(I))

\* A rational rounded toward zero to an integer.
TowardZero(x) ==
    CHOOSE q \in (-Abs(x.num))..Abs(x.num) :
        /\ Abs(q) * x.den <= Abs(x.num)
        /\ (Abs(q) + 1) * x.den > Abs(x.num)
        /\ (q # 0 => (q < 0 <=> x.num < 0))

NsOf == [i \in 1..Len(benchmarks) |-> benchmarks[i].NsPerOp]

MBOf == [i \in 1..Len(benchmarks) |-> benchmarks[i].MBPerSec]

BytesOf == [i \in 1..Len(benchmarks) |-> Float(benchmarks[i].BytesPerOp)]

AllocsOf == [i \in 1..Len(benchmarks) |-> Float(benchmarks[i].AllocsPerOp)]

\* The positions of the records returned for a name.
MergedFor(name) == {k \in 1..Len(merged) : merged[k].Name = name}

\* C4 as stated: the one record returned for a name has each of ns/op,
\* MB/s, bytes/op and allocs/op equal to the arithmetic mean of that metric
\* over the input records of that name, and an iteration count that comes
\* from no input record (it is zero).
C4_ArithmeticMeans ==
    pc = "merged" =>
        \A i \in 1..Len(benchmarks) :
            LET name == benchmarks[i].Name
                I == Sharing(name)
            IN  /\ Cardinality(MergedFor(name)) = 1
                /\ \A k \in MergedFor(name) :
                       /\ merged[k].NsPerOp = Mean(I, NsOf)
                       /\ merged[k].MBPerSec = Mean(I, MBOf)
                       /\ Float(merged[k].BytesPerOp) = Mean(I, BytesOf)
                       /\ Float(merged[k].AllocsPerOp) = Mean(I, AllocsOf)
                       /\ merged[k].Iterations = 0

\* C4 as amended: ns/op and MB/s are the arithmetic means; bytes/op and
\* allocs/op are the arithmetic means rounded toward zero to an integer (the
\* integer sum divided by the count with Go's integer division); the
\* iteration count comes from no input record (it is zero).
C4_MeansRoundedTowardZero ==
    pc = "merged" =>
        \A i \in 1..Len(benchmarks) :
            LET name == benchmarks[i].Name
                I == Sharing(name)
            IN  /\ Cardinality(MergedFor(name)) = 1
                /\ \A k \in MergedFor(name) :
                       /\ merged[k].NsPerOp = Mean(I, NsOf)
                       /\ merged[k].MBPerSec = Mean(I, MBOf)
                       /\ merged[k].BytesPerOp = TowardZero(Mean(I, BytesOf))
                       /\ merged[k].AllocsPerOp = TowardZero(Mean(I, AllocsOf))
                       /\ merged[k].Iterations = 0

\* Two records of one name with bytes/op 0 and 1 and allocs/op 0 and -1 were
\* merged with a record of another name between them: the means 1/2 and
\* -1/2 both came out as 0, ns/op as 50.
C4_Witness ==
    /\ pc = "merged"
    /\ Len(benchmarks) = 3
    /\ benchmarks[1].Name = benchmarks[3].Name
    /\ benchmarks[2].Name # benchmarks[1].Name
    /\ benchmarks[1].BytesPerOp = 0 /\ benchmarks[3].BytesPerOp = 1
    /\ merged[1].BytesPerOp = 0
    /\ merged[1].AllocsPerOp = 0
    /\ merged[1].NsPerOp = Float(50)
    /\ merged[1].Iterations = 0

\* ------------------------------------------------------- report builder

\* NewReportBuilder(packageName): nothing collected, output goes to the
\* package.
NewReportBuilder(packageName) ==
    [packageName |-> packageName, packages |-> <<>>, started |-> FALSE,
     inflight |-> <<>>, tests |-> <<>>, benchmarks |-> <<>>,
     output |-> <<>>, coverage |-> Float(0), buildError |-> NoError,
     sink |-> [kind |-> "package", name |-> Empty]]

PackageSink == [kind |-> "package", name |-> Empty]

\* ReportBuilder.CreateTest: a test in flight, which receives the output.
CreateTest(b, name) ==
    [b EXCEPT !.started = TRUE,
              !.inflight = Append(@, [Name |-> name, Output |-> <<>>]),
              !.sink = [kind |-> "test", name |-> name]]

\* ReportBuilder.PauseTest: the test no longer receives the output.
PauseTest(b, name) == [b EXCEPT !.sink = PackageSink]

\* ReportBuilder.ContinueTest: the test receives the output again.
ContinueTest(b, name) == [b EXCEPT !.sink = [kind |-> "test", name |-> name]]

\* The output collected for the test of that name in flight, if any.
InflightOutput(b, name) ==
    LET found == {i \in 1..Len(b.inflight) : b.inflight[i].Name = name}
    IN  IF found = {} THEN <<>>
        ELSE b.inflight[CHOOSE i \in found : \A j \in found : j <= i].Output

\* ReportBuilder.EndTest: the test is finished with its result, duration and
\* level and joins the package's tests; the output goes to the package.
EndTest(b, name, result, duration, indent) ==
    [b EXCEPT !.started = TRUE,
              !.tests = Append(@, NewTest(name, duration, result, indent,
                                          InflightOutput(b, name))),
              !.inflight = SelectSeq(@, LAMBDA t : t.Name # name),
              !.sink = PackageSink]

\* ReportBuilder.Benchmark: a finished benchmark joins the package's.
Benchmark(b, name, iterations, nsPerOp, mbPerSec, bytesPerOp, allocsPerOp) ==
    [b EXCEPT !.started = TRUE,
              !.benchmarks = Append(@, NewBenchmark(name, Pass, iterations,
                                        nsPerOp, mbPerSec, bytesPerOp,
                                        allocsPerOp))]

\* ReportBuilder.End: the current block of output ends.
End(b) == [b EXCEPT !.sink = PackageSink]

\* The tests of the package being finished: those finished, then those still
\* in flight, without result.
FinalTests(b) ==
    b.tests \o [i \in 1..Len(b.inflight) |->
                   NewTest(b.inflight[i].Name, 0, Unknown, 0, b.inflight[i].Output)]

\* The package under construction, finished and appended to the report.
Finalize(b, name, duration, runError) ==
    [b EXCEPT !.packages =
                  Append(@, [Name |-> name, Duration |-> duration,
                             Coverage |-> b.coverage, Output |-> b.output,
                             Tests |-> FinalTests(b),
                             Benchmarks |-> b.benchmarks,
                             BuildError |-> b.buildError,
                             RunError |-> runError]),
              !.started = FALSE, !.inflight = <<>>, !.tests = <<>>,
              !.benchmarks = <<>>, !.output = <<>>, !.coverage = Float(0),
              !.buildError = NoError, !.sink = PackageSink]

\* ReportBuilder.CreatePackage: the package summary finishes the package; a
\* failure without tests is a run error with data as its cause.
CreatePackage(b, name, result, duration, data) ==
    Finalize(b, IF b.packageName # Empty THEN b.packageName ELSE name, duration,
             IF result = Fail /\ FinalTests(b) = <<>>
             THEN [Name |-> name, Duration |-> 0, Cause |-> data, Output |-> <<>>]
             ELSE NoError)

\* ReportBuilder.Coverage
Coverage(b, pct, packages) == [b EXCEPT !.started = TRUE, !.coverage = pct]

\* ReportBuilder.CreateBuildError: the package under construction is
\* finished, and a build error of that name receives the output.
CreateBuildError(b, name) ==
    LET c == IF b.started THEN Finalize(b, b.packageName, 0, NoError) ELSE b
    IN  [c EXCEPT !.started = TRUE,
                  !.buildError = [Name |-> name, Duration |-> 0,
                                  Cause |-> Empty, Output |-> <<>>],
                  !.sink = [kind |-> "builderror", name |-> name]]

\* ReportBuilder.AppendOutput: one more line for whatever receives output.
AppendOutput(b, data) ==
    IF b.sink.kind = "test"
       /\ \E i \in 1..Len(b.inflight) : b.inflight[i].Name = b.sink.name
    THEN LET i == CHOOSE k \in 1..Len(b.inflight) :
                      /\ b.inflight[k].Name = b.sink.name
                      /\ \A j \in (k + 1)..Len(b.inflight) :
                             b.inflight[j].Name # b.sink.name
         IN  [b EXCEPT !.inflight[i].Output = Append(@, data)]
    ELSE IF b.sink.kind = "builderror"
    THEN [b EXCEPT !.buildError.Output = Append(@, data)]
    ELSE [b EXCEPT !.started = TRUE, !.output = Append(@, data)]

\* ReportBuilder.Build: the report, with the package under construction.
Build(b) ==
    [Packages |-> (IF b.started THEN Finalize(b, b.packageName, 0, NoError)
                   ELSE b).packages]

\* ------------------------------------------------------------ FromEvents

\* An Event: the fields FromEvents reads.  The Type is compared whole and is
\* a string of the model.
Event(type, name, data) ==
    [Type |-> type, Name |-> name, Result |-> Unknown, Duration |-> 0,
     Indent |-> 0, Data |-> data, Iterations |-> 0, NsPerOp |-> Float(0),
     MBPerSec |-> Float(0), BytesPerOp |-> 0, AllocsPerOp |-> 0,
     CovPct |-> Float(0), CovPackages |-> <<>>]

EventInputs ==
    {Event("run_test", <<"A">>, Empty),
     Event("pause_test", <<"A">>, Empty),
     Event("cont_test", <<"A">>, Empty),
     [Event("end_test", <<"A">>, Empty) EXCEPT
         !.Result = Pass, !.Duration = Millis(1), !.Indent = 1],
     [Event("benchmark", <<"B">>, Empty) EXCEPT
         !.Iterations = 10, !.NsPerOp = Float(100), !.MBPerSec = Float(2),
         !.BytesPerOp = 3, !.AllocsPerOp = 4],
     Event("status", Empty, Empty),
     [Event("summary", <<"s">>, <<"d">>) EXCEPT
         !.Result = Fail, !.Duration = Millis(2)],
     [Event("coverage", Empty, Empty) EXCEPT
         !.CovPct = Float(50), !.CovPackages = <<<<"s">>>>],
     Event("build_output", <<"b">>, Empty),
     Event("output", Empty, <<"x">>),
     [Event("bogus", <<"A">>, <<"x">>) EXCEPT !.Result = Fail],
     Event("", Empty, Empty)}

PackageNameInputs == {Empty, <<"q">>}

InitEvents ==
    /\ pc = "loop"
    /\ events \in SeqsUpTo(EventInputs, MaxEvents)
    /\ idx = 1
    /\ builder \in {NewReportBuilder(n) : n \in PackageNameInputs}
    /\ calls = <<>>
    /\ built = None
    /\ IdleReport
    /\ IdleTrim
    /\ IdleMerge

\* The loop is at an event of that type.
AtEvent(type) ==
    /\ pc = "loop"
    /\ idx <= Len(events)
    /\ events[idx].Type = type

\* The builder operation op is invoked with args and gives b; the loop goes on.
Invoke(op, args, b) ==
    /\ builder' = b
    /\ calls' = Append(calls, [op |-> op, args |-> args])
    /\ idx' = idx + 1
    /\ UNCHANGED <<pc, events, built, reportVars, trimVars, mergeVars>>

DispatchRunTest ==
    /\ AtEvent("run_test")
    /\ LET ev == events[idx]
       IN  Invoke("CreateTest", <<ev.Name>>, CreateTest(builder, ev.Name))

DispatchPauseTest ==
    /\ AtEvent("pause_test")
    /\ LET ev == events[idx]
       IN  Invoke("PauseTest", <<ev.Name>>, PauseTest(builder, ev.Name))

DispatchContTest ==
    /\ AtEvent("cont_test")
    /\ LET ev == events[idx]
       IN  Invoke("ContinueTest", <<ev.Name>>, ContinueTest(builder, ev.Name))

DispatchEndTest ==
    /\ AtEvent("end_test")
    /\ LET ev == events[idx]
       IN  Invoke("EndTest", <<ev.Name, ev.Result, ev.Duration, ev.Indent>>,
                  EndTest(builder, ev.Name, ev.Result, ev.Duration, ev.Indent))

DispatchBenchmark ==
    /\ AtEvent("benchmark")
    /\ LET ev == events[idx]
       IN  Invoke("Benchmark",
                  <<ev.Name, ev.Iterations, ev.NsPerOp, ev.MBPerSec,
                    ev.BytesPerOp, ev.AllocsPerOp>>,
                  Benchmark(builder, ev.Name, ev.Iterations, ev.NsPerOp,
                            ev.MBPerSec, ev.BytesPerOp, ev.AllocsPerOp))

DispatchStatus ==
    /\ AtEvent("status")
    /\ Invoke("End", <<>>, End(builder))

DispatchSummary ==
    /\ AtEvent("summary")
    /\ LET ev == events[idx]
       IN  Invoke("CreatePackage", <<ev.Name, ev.Result, ev.Duration, ev.Data>>,
                  CreatePackage(builder, ev.Name, ev.Result, ev.Duration, ev.Data))

DispatchCoverage ==
    /\ AtEvent("coverage")
    /\ LET ev == events[idx]
       IN  Invoke("Coverage", <<ev.CovPct, ev.CovPackages>>,
                  Coverage(builder, ev.CovPct, ev.CovPackages))

DispatchBuildOutput ==
    /\ AtEvent("build_output")
    /\ LET ev == events[idx]
       IN  Invoke("CreateBuildError", <<ev.Name>>,
                  CreateBuildError(builder, ev.Name))

DispatchOutput ==
    /\ AtEvent("output")
    /\ LET ev == events[idx]
       IN  Invoke("AppendOutput", <<ev.Data>>, AppendOutput(builder, ev.Data))

RecognizedTypes ==
    {"run_test", "pause_test", "cont_test", "end_test", "benchmark", "status",
     "summary", "coverage", "build_output", "output"}

\* A variant that treats an event of any other type as a status event.
DispatchDefaultAsStatus ==
    /\ pc = "loop"
    /\ idx <= Len(events)
    /\ events[idx].Type \notin RecognizedTypes
    /\ Invoke("End", <<>>, End(builder))

\* default: the event is reported as unhandled and the loop goes on.
DispatchDefault ==
    /\ pc = "loop"
    /\ idx <= Len(events)
    /\ events[idx].Type \notin RecognizedTypes
    /\ idx' = idx + 1
    /\ UNCHANGED <<pc, events, builder, calls, built, reportVars, trimVars,
                   mergeVars>>

\* return report.Build()
ReturnBuild ==
    /\ pc = "loop"
    /\ idx > Len(events)
    /\ built' = Build(builder)
    /\ pc' = "returned"
    /\ UNCHANGED <<events, idx, builder, calls, reportVars, trimVars, mergeVars>>

NextEvents ==
    \/ DispatchRunTest
    \/ DispatchPauseTest
    \/ DispatchContTest
    \/ DispatchEndTest
    \/ DispatchBenchmark
    \/ DispatchStatus
    \/ DispatchSummary
    \/ DispatchCoverage
    \/ DispatchBuildOutput
    \/ DispatchOutput
    \/ DispatchDefault
    \/ ReturnBuild

SpecEvents == InitEvents /\ [][NextEvents]_vars

\* The events of a recognized type, in order.
RecognizedEvents(evs) == SelectSeq(evs, LAMBDA e : e.Type \in RecognizedTypes)

\* The builder operation that an event of a recognized type stands for.
OperationOf(e) ==
    CASE e.Type = "run_test" -> [op |-> "CreateTest", args |-> <<e.Name>>]
      [] e.Type = "pause_test" -> [op |-> "PauseTest", args |-> <<e.Name>>]
      [] e.Type = "cont_test" -> [op |-> "ContinueTest", args |-> <<e.Name>>]
      [] e.Type = "end_test" ->
             [op |-> "EndTest",
              args |-> <<e.Name, e.Result, e.Duration, e.Indent>>]
      [] e.Type = "benchmark" ->
             [op |-> "Benchmark",
              args |-> <<e.Name, e.Iterations, e.NsPerOp, e.MBPerSec,
                         e.BytesPerOp, e.AllocsPerOp>>]
      [] e.Type = "status" -> [op |-> "End", args |-> <<>>]
      [] e.Type = "summary" ->
             [op |-> "CreatePackage",
              args |-> <<e.Name, e.Result, e.Duration, e.Data>>]
      [] e.Type = "coverage" ->
             [op |-> "Coverage", args |-> <<e.CovPct, e.CovPackages>>]
      [] e.Type = "build_output" ->
             [op |-> "CreateBuildError", args |-> <<e.Name>>]
      [] e.Type = "output" -> [op |-> "AppendOutput", args |-> <<e.Data>>]

OperationsOf(evs) == [i \in 1..Len(evs) |-> OperationOf(evs[i])]

\* The builder after one operation.
Applied(b, c) ==
    CASE c.op = "CreateTest" -> CreateTest(b, c.args[1])
      [] c.op = "PauseTest" -> PauseTest(b, c.args[1])
      [] c.op = "ContinueTest" -> ContinueTest(b, c.args[1])
      [] c.op = "EndTest" -> EndTest(b, c.args[1], c.args[2], c.args[3], c.args[4])
      [] c.op = "Benchmark" ->
             Benchmark(b, c.args[1], c.args[2], c.args[3], c.args[4],
                       c.args[5], c.args[6])
      [] c.op = "End" -> End(b)
      [] c.op = "CreatePackage" ->
             CreatePackage(b, c.args[1], c.args[2], c.args[3], c.args[4])
      [] c.op = "Coverage" -> Coverage(b, c.args[1], c.args[2])
      [] c.op = "CreateBuildError" -> CreateBuildError(b, c.args[1])
      [] c.op = "AppendOutput" -> AppendOutput(b, c.args[1])

RECURSIVE AppliedAll(_, _)
AppliedAll(b, cs) ==
    IF cs = <<>> THEN b ELSE AppliedAll(Applied(b, Head(cs)), Tail(cs))

\* The report of a sequence of events of recognized types only.
ReportOfRecognized(evs, packageName) ==
    Build(AppliedAll(NewReportBuilder(packageName), OperationsOf(evs)))

\* C8: when FromEvents returns, the builder operations it invoked are those
\* of the events of a recognized type, in arrival order, none for any other
\* event, and the report it returns is that of the same events with the
\* unrecognized ones removed.
C8_UnrecognizedEventsIgnored ==
    pc = "returned" =>
        /\ Len(calls) = Len(RecognizedEvents(events))
        /\ calls = OperationsOf(RecognizedEvents(events))
        /\ built = ReportOfRecognized(RecognizedEvents(events), builder.packageName)

\* FromEvents returned for a test started, an event of an unknown type and
\* an output line: two operations were invoked and the report holds the
\* test, without result, with that line.
C8_Witness ==
    /\ pc = "returned"
    /\ Len(events) = 3
    /\ events[1].Type = "run_test"
    /\ events[2].Type \notin RecognizedTypes
    /\ events[3].Type = "output"
    /\ Len(calls) = 2
    /\ Len(built.Packages) = 1
    /\ Len(built.Packages[1].Tests) = 1
    /\ built.Packages[1].Tests[1].Result = Unknown
    /\ built.Packages[1].Tests[1].Output = <<events[3].Data>>

====
